---- MODULE Spec2Model ----
(***************************************************************************)
(* Concurrency-sweep benchmark executor of                                 *)
(* node-test-runner-parallelization-analysis:                              *)
(*   benchmarkTestRun / benchmark / writeResults  (benchmark-test-run.ts)  *)
(*   runBenchmarks / aggregateResults / default command                    *)
(*   analyze command / calculateStatistics / renderStatisticsTable         *)
(*                                         (benchmark-multiple-test-runs)  *)
(*   request handler / simulateApplication / test 'request N' (server.ts)  *)
(* Durations reported by the test stream are counted in half milliseconds  *)
(* so that Math.round has something to round.                              *)
(***************************************************************************)
EXTENDS Integers, Sequences, FiniteSets, TLC

\* ------------------------------------------------------------------ bounds
MaxConcurrency == 2
MaxSampleSize == 2
MaxFiles == 2
MaxLen == 3
MaxValue == 2
MaxRuns == 2
MaxRequests == 2

Levels == 1..MaxConcurrency

\* ------------------------------------------------- values of the test stream
\* A 'test:summary' event: data.file is set on the per-file events;
\* data.duration_ms is counted in half milliseconds, 0 standing for a falsy
\* value (0 or undefined); data.counts.tests also counts skipped tests.
\* The main summaries: a run of 12.5 ms whose tests all pass, and a run with a
\* failed test whose duration is falsy.
MainSummaries ==
    { [file |-> FALSE, duration_ms |-> 25,
       counts |-> [tests |-> 15, passed |-> 15, failed |-> 0]],
      [file |-> FALSE, duration_ms |-> 0,
       counts |-> [tests |-> 16, passed |-> 2, failed |-> 13]] }

FileSummaries ==
    { [file |-> TRUE, duration_ms |-> 1,
       counts |-> [tests |-> 1, passed |-> 0, failed |-> 1]] }

SummaryEvents == MainSummaries \cup FileSummaries

\* ------------------------------------------------------------ pure helpers
\* Math.round on a value given in half milliseconds (halves round up).
MathRound(h) == (h + 1) \div 2

\* The object benchmarkTestRun resolves with.
TestRunBenchmarkResult(concurrency, data) ==
    [ concurrency |-> concurrency,
      duration    |-> IF data.duration_ms # 0 THEN MathRound(data.duration_ms) ELSE 0,
      passed      |-> data.counts.passed,
      failed      |-> data.counts.failed,
      totalTests  |-> data.counts.tests ]

NoResult ==
    [concurrency |-> 0, duration |-> 0, passed |-> 0, failed |-> 0, totalTests |-> 0]

\* A handler that takes every summary for the main one.
EverySummaryIsMain(data) == TRUE

\* `if (!data.file)`: only the main summary settles the promise.
IsMainSummary(data) == ~data.file

\* Promise semantics: resolve and reject act on a pending promise only.
NoPromise == [state |-> "none", value |-> NoResult]
PendingPromise == [state |-> "pending", value |-> NoResult]
Resolve(p, v) == IF p.state = "pending" THEN [state |-> "resolved", value |-> v] ELSE p
Reject(p) == IF p.state = "pending" THEN [state |-> "rejected", value |-> NoResult] ELSE p
Settled(p) == p.state \in {"resolved", "rejected"}

\* Mutant: the loop stops one level early.
LoopCondExclusive(level, concurrency) == level < concurrency

\* `i <= concurrency` of benchmark's for loop.
LoopCond(level, concurrency) == level <= concurrency

\* Mutant: the loop steps over every other level.
NextLevelSkips(level) == level + 2

\* `i++` of benchmark's for loop.
NextLevel(level) == level + 1

\* Mutant: the generator goes on without waiting for the promise to settle.
AwaitSkipped(p) == p.state # "none"

\* Mutant: a rejection is swallowed and the loop goes on.
AwaitSwallows(p) == FALSE

\* An await that never resumes.
AwaitNeverResumes(p) == FALSE

\* `await benchmarkTestRun(i)`: the generator goes on once the promise has
\* settled, and the await throws when it was rejected.
AwaitDone(p) == Settled(p)
AwaitThrows(p) == p.state = "rejected"

\* Mutant: a summary that reports failed tests rejects the promise.
SummaryRejectsFailures(p, level, data) ==
    IF data.counts.failed > 0 THEN Reject(p)
    ELSE Resolve(p, TestRunBenchmarkResult(level, data))

\* resolve({concurrency, duration, passed, failed, totalTests}) in the
\* 'test:summary' handler.
SummarySettles(p, level, data) == Resolve(p, TestRunBenchmarkResult(level, data))

\* reject(err) in the 'error' handler.
ErrorSettles(p) == Reject(p)

\* Mutant: the sample loop runs once more than asked.
SampleLoopCondInclusive(n, size) == n <= size

\* `i < sampleSize` of runBenchmarks' for loop.
SampleLoopCond(n, size) == n < size

VARIABLES
    maxConcurrency,  \* concurrency argument of benchmark / runBenchmarks
    sampleSize,      \* sampleSize argument of runBenchmarks
    pc,              \* position of the command that consumes the sweep
    sample,          \* loop variable i of runBenchmarks
    results,         \* the array the consumer pushes each yielded result to
    gen,             \* state of the async generator benchmark()
    i,               \* loop variable i of benchmark
    promise,         \* per level: the promise returned by benchmarkTestRun
    stream,          \* per level: the test stream created by run()
    calls,           \* levels benchmarkTestRun was invoked with, in order (this sweep)
    cur,             \* the value the generator yielded last
    consumer,        \* state of the for-await loop over benchmark()
    sweeps,          \* number of benchmark() generators created
    dir,             \* benchmark results directory: file stamp -> Sample record
    pendingWrite,    \* writeFile in flight: <<stamp, record>> or <<>>
    now,             \* last value of Date.now()
    aggCalls,        \* number of aggregateResults invocations
    analysis,        \* value returned by aggregateResults (<<>> when none)
    analysisFile,    \* statistical-analysis.json (<<>> when absent)
    table,           \* speedup rows of the rendered statistics table (<<>> when none)
    summary,         \* fastest configuration of the rendered summary (<<>> when none)
    statInput,       \* argument of the statistics functions
    stats,           \* value returned by calculateStatistics (<<>> when none)
    pct,             \* interpolation of the last calculatePercentile call (<<>> when none)
    appMode,         \* APP_MODE of the test-subject server
    server,          \* the server process: "none", "listening" or "crashed"
    served,          \* number of requests the tests have sent
    response,        \* the response to the last request (<<>> when none)
    testResult       \* the test of the last request: "none", "waiting", "passed", "failed"

vars == << maxConcurrency, sampleSize, pc, sample, results, gen, i, promise, stream,
           calls, cur, consumer, sweeps, dir, pendingWrite, now, aggCalls, analysis,
           analysisFile, table, summary, statInput, stats, pct, appMode, server, served,
           response, testResult >>

sweepVars == << results, gen, i, promise, stream, calls, cur, consumer, sweeps >>
storeVars == << dir, pendingWrite, now, aggCalls, analysis, analysisFile, table,
               summary >>
statVars == << statInput, stats, pct >>
serverVars == << appMode, server, served, response, testResult >>
configVars == << maxConcurrency, sampleSize >>

EmptyDir == [f \in {} |-> NoResult]

\* --------------------------------------------------------------- benchmark
\* benchmarkTestRun(level): run() creates the stream, the handlers are
\* registered and a pending promise is returned.  ps, ss and cs are the
\* promises, streams and calls the invocation is added to.
BenchmarkTestRun(level, ps, ss, cs) ==
    /\ promise' = [ps EXCEPT ![level] = PendingPromise]
    /\ stream' = [ss EXCEPT ![level] = "starting"]
    /\ calls' = Append(cs, level)

\* The generator body from the loop test on, with loop variable `level`, up to
\* its next suspension: either the await of benchmarkTestRun or the return.
RunGenerator(level, ps, ss, cs) ==
    /\ i' = level
    /\ IF LoopCond(level, maxConcurrency)
         THEN /\ BenchmarkTestRun(level, ps, ss, cs)
              /\ gen' = "awaiting"
              /\ consumer' = "waiting"
         ELSE /\ gen' = "completed"
              /\ consumer' = "done"
              /\ promise' = ps
              /\ stream' = ss
              /\ calls' = cs

\* `for await (const result of benchmark(...))`: a new generator is created
\* and next() is called for the first time, which runs it from `let i = 1`.
StartSweep ==
    /\ sweeps' = sweeps + 1
    /\ cur' = NoResult
    /\ RunGenerator(1, [l \in Levels |-> NoPromise], [l \in Levels |-> "none"], << >>)

\* The before hook of a test file stops waiting for its server: 'Server ready'
\* was printed, or the server wrote to stderr or failed to spawn.  Nothing
\* else ends the wait.
BeforeHookSettles(l) ==
    /\ stream[l] = "starting"
    /\ stream' = [stream EXCEPT ![l] = "running"]
    /\ UNCHANGED << statVars, serverVars, configVars, pc, sample, results, gen, i, promise, calls, cur,
                    consumer, sweeps, storeVars >>

\* testStream.on('test:summary', ...)
TestSummary(l, data) ==
    /\ stream[l] \in {"starting", "running"}
    /\ IsMainSummary(data) => stream[l] = "running"
    /\ promise' = IF IsMainSummary(data)
                    THEN [promise EXCEPT ![l] = SummarySettles(@, l, data)]
                    ELSE promise
    /\ UNCHANGED << statVars, serverVars, configVars, pc, sample, results, gen, i, stream, calls, cur,
                    consumer, sweeps, storeVars >>

\* testStream.on('error', ...); the stream is destroyed by the error.
StreamError(l) ==
    /\ stream[l] \in {"starting", "running"}
    /\ promise' = [promise EXCEPT ![l] = ErrorSettles(@)]
    /\ stream' = [stream EXCEPT ![l] = "ended"]
    /\ UNCHANGED << statVars, serverVars, configVars, pc, sample, results, gen, i, calls, cur, consumer,
                    sweeps, storeVars >>

\* The stream ends after its main summary.
StreamEnd(l) ==
    /\ stream[l] = "running"
    /\ promise[l].state = "resolved"
    /\ stream' = [stream EXCEPT ![l] = "ended"]
    /\ UNCHANGED << statVars, serverVars, configVars, pc, sample, results, gen, i, promise, calls, cur,
                    consumer, sweeps, storeVars >>

\* `const result = await benchmarkTestRun(i); yield result;` once the promise
\* has settled: the result is yielded, or the rejection is thrown out of the
\* generator.
AwaitResumes ==
    /\ gen = "awaiting"
    /\ AwaitDone(promise[i])
    /\ IF AwaitThrows(promise[i])
         THEN /\ gen' = "completed"
              /\ cur' = cur
              /\ consumer' = "threw"
         ELSE /\ gen' = "suspendedYield"
              /\ cur' = promise[i].value
              /\ consumer' = "body"
    /\ UNCHANGED << statVars, serverVars, configVars, pc, sample, results, i, promise, stream, calls,
                    sweeps, storeVars >>

\* Loop body of the consumer: results.push(result).
ConsumerBody ==
    /\ consumer = "body"
    /\ results' = Append(results, cur)
    /\ consumer' = "pushed"
    /\ UNCHANGED << statVars, serverVars, configVars, pc, sample, gen, i, promise, stream, calls, cur,
                    sweeps, storeVars >>

\* Mutant: the generator runs on from its yield before the consumer has taken
\* the value.
ResumesEagerly == consumer \in {"body", "pushed"} /\ gen = "suspendedYield"

\* The generator resumes from its yield only when the consumer asks for the
\* next value.
ResumesOnNext == consumer = "pushed" /\ gen = "suspendedYield"

\* The for-await loop calls next(): the generator resumes after its yield.
ConsumerNext ==
    /\ ResumesOnNext
    /\ RunGenerator(NextLevel(i), promise, stream, calls)
    /\ UNCHANGED << statVars, serverVars, configVars, pc, sample, results, cur, sweeps, storeVars >>

\* Mutant: the producer keeps running after return(), as a loop that does not
\* wait for its consumer would.
ReturnKeepsRunning ==
    /\ i' = NextLevel(i)
    /\ IF LoopCond(NextLevel(i), maxConcurrency)
         THEN /\ BenchmarkTestRun(NextLevel(i), promise, stream, calls)
              /\ gen' = "awaiting"
         ELSE /\ gen' = "completed"
              /\ UNCHANGED << promise, stream, calls >>

\* return() on the generator suspended at its yield: the generator completes
\* there, the rest of its body never runs.
GeneratorReturn ==
    /\ gen' = "completed"
    /\ UNCHANGED << i, promise, stream, calls >>

\* The consumer leaves the loop early (break), which calls return().
ConsumerStop ==
    /\ consumer = "pushed"
    /\ gen = "suspendedYield"
    /\ GeneratorReturn
    /\ consumer' = "stopped"
    /\ UNCHANGED << statVars, serverVars, configVars, pc, sample, results, cur, sweeps, storeVars >>

StreamNext ==
    \/ \E l \in Levels : BeforeHookSettles(l)
    \/ \E l \in Levels, data \in SummaryEvents : TestSummary(l, data)
    \/ \E l \in Levels : StreamError(l)
    \/ \E l \in Levels : StreamEnd(l)

\* ------------------------------------------------- a sweep and its consumer
SweepBegin ==
    /\ pc = "sweep"
    /\ consumer = "idle"
    /\ results' = << >>
    /\ StartSweep
    /\ UNCHANGED << statVars, serverVars, configVars, pc, sample, storeVars >>

\* No sweep has been started.
NoSweep ==
    /\ sample = 0
    /\ results = << >>
    /\ gen = "none"
    /\ i = 0
    /\ promise = [l \in Levels |-> NoPromise]
    /\ stream = [l \in Levels |-> "none"]
    /\ calls = << >>
    /\ cur = NoResult
    /\ consumer = "idle"
    /\ sweeps = 0

\* Nothing has been written, aggregated or rendered.
EmptyStore ==
    /\ pendingWrite = << >>
    /\ now = 0
    /\ aggCalls = 0
    /\ analysis = << >>
    /\ analysisFile = << >>
    /\ table = << >>
    /\ summary = << >>

InitCommon ==
    /\ NoSweep
    /\ dir = EmptyDir
    /\ EmptyStore

\* No statistics function has been called.
NoStatistics ==
    /\ statInput = << >>
    /\ stats = << >>
    /\ pct = << >>

\* No test-subject server is looked at.
NoServer ==
    /\ appMode = "default"
    /\ server = "none"
    /\ served = 0
    /\ response = << >>
    /\ testResult = "none"

SweepInit ==
    /\ maxConcurrency \in 1..MaxConcurrency
    /\ sampleSize = 1
    /\ pc = "sweep"
    /\ InitCommon
    /\ NoStatistics
    /\ NoServer

SweepNext ==
    \/ SweepBegin
    \/ StreamNext
    \/ AwaitResumes
    \/ ConsumerBody
    \/ ConsumerNext
    \/ ConsumerStop

SweepSpec == SweepInit /\ [][SweepNext]_vars

\* The event loop runs every continuation that is ready, the consumer goes on
\* consuming or stops, and a test run whose hooks have settled reaches its
\* main summary.  Whether a server ever reports ready is up to the server.
FairSweepSpec ==
    /\ SweepSpec
    /\ WF_vars(SweepBegin)
    /\ WF_vars(AwaitResumes)
    /\ WF_vars(ConsumerBody)
    /\ WF_vars(ConsumerNext \/ ConsumerStop)
    /\ \A l \in Levels : WF_vars(\E d \in MainSummaries : TestSummary(l, d))

\* --------------------------------------------------------------- the store
\* numTestFiles and appMode of getCLIArgs (their defaults).
NumTestFiles == 10
AppMode == "default"

\* The BenchmarkResult object handed to writeResults.
BenchmarkResult(rs) ==
    [numberOfTestFiles |-> NumTestFiles, applicationMode |-> AppMode, results |-> rs]

\* Date.now(): the clock does not run backwards between two reads, and two
\* reads may fall into the same millisecond.
DateNow == {now, now + 1}

\* The name writeResults gives the record: `results-${Date.now()}.json`.
ResultFileName(t) == t

\* writeFile(path, data): creates the file or replaces its content.
WriteFile(d, name, rec) ==
    [f \in (DOMAIN d) \cup {name} |-> IF f = name THEN rec ELSE d[f]]

\* ----------------------------------------------------------------- numbers
\* A JavaScript number is kept as the exact fraction num/den in lowest terms
\* with den > 0; den = 0 stands for Infinity (num = 1), -Infinity (num = -1)
\* and NaN (num = 0).
RECURSIVE GCD(_, _)
GCD(a, b) == IF b = 0 THEN a ELSE IF b = 1 THEN 1 ELSE GCD(b, a % b)

Abs(x) == IF x < 0 THEN -x ELSE x
Sign(x) == IF x > 0 THEN 1 ELSE IF x < 0 THEN -1 ELSE 0

Frac(n, d) ==
    IF d = 0 THEN [num |-> Sign(n), den |-> 0]
    ELSE IF d = 1 THEN [num |-> n, den |-> 1]
    ELSE LET g == GCD(Abs(n), Abs(d))
         IN [num |-> Sign(d) * (n \div g), den |-> Abs(d) \div g]

Num(k) == [num |-> k, den |-> 1]
NaN == [num |-> 0, den |-> 0]
Infinity == [num |-> 1, den |-> 0]
NegInfinity == [num |-> -1, den |-> 0]
IsFinite(x) == x.den # 0

\* x + y, x - y, x * y: a NaN or infinite operand does not occur with finite
\* results in this program, it gives NaN.
Add(x, y) ==
    IF x.den = 1 /\ y.den = 1 THEN [num |-> x.num + y.num, den |-> 1]
    ELSE IF IsFinite(x) /\ IsFinite(y)
      THEN LET g == GCD(x.den, y.den)
           IN Frac(x.num * (y.den \div g) + y.num * (x.den \div g), x.den * (y.den \div g))
      ELSE NaN
Neg(x) == [num |-> -x.num, den |-> x.den]
Sub(x, y) == Add(x, Neg(y))
Mul(x, y) ==
    IF x.den = 1 /\ y.den = 1 THEN [num |-> x.num * y.num, den |-> 1]
    ELSE IF IsFinite(x) /\ IsFinite(y) THEN Frac(x.num * y.num, x.den * y.den) ELSE NaN

\* x / y on finite numbers: 0 / 0 is NaN and any other division by zero is
\* infinite.
Div(x, y) ==
    IF IsFinite(x) /\ IsFinite(y)
      THEN IF y.num = 0 THEN Frac(x.num, 0) ELSE Frac(x.num * y.den, x.den * y.num)
      ELSE NaN

\* x <= y; every comparison with NaN is false.
Leq(x, y) ==
    IF IsFinite(x) /\ IsFinite(y) THEN x.num * y.den <= y.num * x.den
    ELSE /\ x # NaN
         /\ y # NaN
         /\ (x = NegInfinity \/ y = Infinity)

\* x < y
Less(x, y) == Leq(x, y) /\ ~Leq(y, x)

MathFloor(x) == x.num \div x.den
MathCeil(x) == -((-x.num) \div x.den)

\* Math.pow(x, 2)
MathPow2(x) == Mul(x, x)

\* array[k] with the index counted from 0; a read outside the array gives
\* undefined, which is NaN in arithmetic.
At(array, k) == IF k \in 0..(Len(array) - 1) THEN array[k + 1] ELSE NaN

\* The numbers of an array of measured integers.
Numbers(ints) == [k \in 1..Len(ints) |-> Num(ints[k])]

\* A copy that is left as it is.
Unsorted(values) == values

\* [...values].sort((a, b) => a - b)
\* The element at position k of the result is the value that has fewer than k
\* smaller elements and at least k elements not above it.
SortNumbers(values) ==
    LET Below(x) == Cardinality({j \in 1..Len(values) : Leq(values[j], x) /\ values[j] # x})
        UpTo(x) == Cardinality({j \in 1..Len(values) : Leq(values[j], x)})
    IN [k \in 1..Len(values) |->
           CHOOSE x \in {values[j] : j \in 1..Len(values)} : Below(x) < k /\ k <= UpTo(x)]

\* values.reduce((sum, val) => sum + val, 0): the exact sum, which is the same
\* in whatever order the fractions are added, is added up by halves.
RECURSIVE SumRange(_, _, _)
SumRange(values, from, to) ==
    IF from > to THEN Num(0)
    ELSE IF from = to THEN values[from]
    ELSE LET mid == (from + to) \div 2
         IN Add(SumRange(values, from, mid), SumRange(values, mid + 1, to))

Sum(values) == SumRange(values, 1, Len(values))

\* Doubles hold the fractions whose denominator is a power of two exactly (the
\* numerators of this model are far below 2^53), and a sum of such numbers is
\* exact.  Any other sum rounds after each addition, so that the double it
\* gives is determined by the summands in the order they are added, where the
\* first two may be exchanged (0 + a is exact and a + b = b + a).
RECURSIVE IsPowerOfTwo(_)
IsPowerOfTwo(d) == d = 1 \/ (d > 1 /\ d % 2 = 0 /\ IsPowerOfTwo(d \div 2))

IsExact(x) == IsFinite(x) /\ IsPowerOfTwo(x.den)

\* Two sums of the same fractions are the same double when the records below
\* are equal, and for up to four of the durations and counts of MainSummaries
\* only then.

SumOrder(values) ==
    IF \A k \in 1..Len(values) : IsExact(values[k]) THEN << >>
    ELSE IF Len(values) >= 2 /\ ~Leq(values[1], values[2])
      THEN << values[2], values[1] >> \o SubSeq(values, 3, Len(values))
    ELSE values

\* Math.sqrt(x) of a mean x whose sum was added up in the given order: the
\* square root is kept symbolic.
MathSqrt(x, order) == [sqrtOf |-> x, summed |-> order]

\* -------------------------------------------------------------- statistics
calculateMean(values) ==
    IF Len(values) = 0 THEN Num(0) ELSE Div(Sum(values), Num(Len(values)))

\* The median that takes the lower of the two middle elements.
calculateMedianLower(values) ==
    IF Len(values) = 0 THEN Num(0)
    ELSE LET sorted == SortNumbers(values)
             mid == Len(sorted) \div 2
         IN IF Len(sorted) % 2 = 0 THEN At(sorted, mid - 1) ELSE At(sorted, mid)

calculateMedian(values) ==
    IF Len(values) = 0 THEN Num(0)
    ELSE LET sorted == SortNumbers(values)
             mid == Len(sorted) \div 2
         IN IF Len(sorted) % 2 = 0
              THEN Div(Add(At(sorted, mid - 1), At(sorted, mid)), Num(2))
              ELSE At(sorted, mid)

\* The standard deviation of a sample, which divides by length - 1.
calculateStdDevSample(values) ==
    IF Len(values) = 0 THEN MathSqrt(Num(0), << >>)
    ELSE LET mean == calculateMean(values)
             squaredDiffs == [k \in 1..Len(values) |-> MathPow2(Sub(values[k], mean))]
         IN MathSqrt(Div(Sum(squaredDiffs), Num(Len(values) - 1)), SumOrder(squaredDiffs))

calculateStdDev(values) ==
    IF Len(values) = 0 THEN MathSqrt(Num(0), << >>)
    ELSE LET mean == calculateMean(values)
             squaredDiffs == [k \in 1..Len(values) |-> MathPow2(Sub(values[k], mean))]
         IN MathSqrt(calculateMean(squaredDiffs), SumOrder(squaredDiffs))

\* The index that scales by the length.
PercentileIndexByLength(percentile, length) == Mul(Div(Num(percentile), Num(100)), Num(length))

\* index = (percentile / 100) * (sorted.length - 1)
PercentileIndex(percentile, length) == Mul(Div(Num(percentile), Num(100)), Num(length - 1))

\* The interpolation with the two weights exchanged.
InterpolateExchanged(sorted, percentile) ==
    LET index == PercentileIndex(percentile, Len(sorted))
        lower == MathFloor(index)
        upper == MathCeil(index)
        weight == Sub(index, Num(lower))
    IN [ percentile |-> percentile, lower |-> lower, upper |-> upper, weight |-> weight,
         result |-> Add(Mul(At(sorted, lower), weight),
                        Mul(At(sorted, upper), Sub(Num(1), weight))) ]

\* The interpolation of calculatePercentile on the sorted copy: the two
\* indices it reads, the weight and the value it returns.
Interpolate(sorted, percentile) ==
    LET index == PercentileIndex(percentile, Len(sorted))
        lower == MathFloor(index)
        upper == MathCeil(index)
        weight == Sub(index, Num(lower))
    IN [ percentile |-> percentile, lower |-> lower, upper |-> upper, weight |-> weight,
         result |-> Add(Mul(At(sorted, lower), Sub(Num(1), weight)),
                        Mul(At(sorted, upper), weight)) ]

calculatePercentile(values, percentile) ==
    IF Len(values) = 0 THEN Num(0)
    ELSE Interpolate(SortNumbers(values), percentile).result

\* Math.min(...values) and Math.max(...values)
MathMin(values) ==
    IF values = << >> THEN Infinity
    ELSE CHOOSE x \in {values[k] : k \in 1..Len(values)} :
             \A k \in 1..Len(values) : Leq(x, values[k])

MathMax(values) ==
    IF values = << >> THEN NegInfinity
    ELSE CHOOSE x \in {values[k] : k \in 1..Len(values)} :
             \A k \in 1..Len(values) : Leq(values[k], x)

calculateStatistics(values) ==
    [ mean   |-> calculateMean(values),
      median |-> calculateMedian(values),
      stdDev |-> calculateStdDev(values),
      min    |-> MathMin(values),
      max    |-> MathMax(values),
      p25    |-> calculatePercentile(values, 25),
      p75    |-> calculatePercentile(values, 75),
      p95    |-> calculatePercentile(values, 95),
      p99    |-> calculatePercentile(values, 99) ]

\* ------------------------------------------------------------ aggregation
RECURSIVE SortAscending(_)
SortAscending(S) ==
    IF S = {} THEN << >>
    ELSE LET m == CHOOSE x \in S : \A y \in S : x <= y
         IN << m >> \o SortAscending(S \ {m})

RECURSIVE Flatten(_)
Flatten(ss) == IF ss = << >> THEN << >> ELSE Head(ss).results \o Flatten(Tail(ss))

\* The name of statistical-analysis.json in a listing of the directory; the
\* results files are named by their stamps, which are not negative.
AnalysisFileName == -1

\* readdir(benchmarkResultsDir): the results files and, once it is written,
\* the analysis file, each with its content.
Readdir(d, af) ==
    IF af = << >> THEN d
    ELSE [f \in (DOMAIN d) \cup {AnalysisFileName} |->
             IF f = AnalysisFileName THEN af ELSE d[f]]

\* A filter that keeps every .json file.
EveryJsonFile(files) == files

\* files.filter(file => file.endsWith('.json') && file !== 'statistical-analysis.json')
ResultFiles(files) == [f \in (DOMAIN files) \ {AnalysisFileName} |-> files[f]]

\* `for (const benchResult of result.results)` needs result.results to be an
\* array; on a record without it the loop throws a TypeError.
HasResults(rec) == "results" \in DOMAIN rec

\* readResultFiles: every results file of the directory, parsed.
ReadResultFiles(d) ==
    LET names == SortAscending(DOMAIN d)
    IN [k \in 1..Len(names) |-> d[names[k]]]

\* A grouping that takes the position of a Measurement in its record for its
\* concurrency.
GroupByPosition(samples, c) ==
    LET ms == IF \E k \in 1..Len(samples) : Len(samples[k].results) >= c
                THEN Flatten([k \in 1..Len(samples) |->
                        [results |-> IF Len(samples[k].results) >= c
                                       THEN << samples[k].results[c] >> ELSE << >>]])
                ELSE << >>
    IN [ durations |-> [k \in 1..Len(ms) |-> ms[k].duration],
         passed    |-> [k \in 1..Len(ms) |-> ms[k].passed],
         failed    |-> [k \in 1..Len(ms) |-> ms[k].failed] ]

\* The group of one concurrency value: the values pushed for it, in order.
Group(samples, c) ==
    LET ms == SelectSeq(Flatten(samples), LAMBDA m : m.concurrency = c)
    IN [ durations |-> [k \in 1..Len(ms) |-> ms[k].duration],
         passed    |-> [k \in 1..Len(ms) |-> ms[k].passed],
         failed    |-> [k \in 1..Len(ms) |-> ms[k].failed] ]

\* Keys for every level up to the highest, whether met or not.
KeysOfEveryLevel(samples) == [k \in 1..MaxConcurrency |-> k]

\* resultsByConcurrency.keys(): the concurrency values in the order in which
\* the loop first meets them.
Keys(samples) ==
    LET all == Flatten(samples)
        first == {k \in 1..Len(all) : \A j \in 1..(k - 1) : all[j].concurrency # all[k].concurrency}
        at == SortAscending(first)
    IN [k \in 1..Len(at) |-> all[at[k]].concurrency]

\* The keys left in the order of the Map.
UnsortedConcurrencies(samples) == Keys(samples)

\* Array.from(resultsByConcurrency.keys()).sort((a, b) => a - b)
SortedConcurrencies(samples) ==
    LET keys == Keys(samples)
    IN SortAscending({keys[k] : k \in 1..Len(keys)})

\* An entry whose sampleCount is the number of records read.
AggregatedResultOfAllSamples(samples, c) ==
    LET data == Group(samples, c)
    IN [ concurrency   |-> c,
         durationStats |-> calculateStatistics(Numbers(data.durations)),
         passedStats   |-> calculateStatistics(Numbers(data.passed)),
         failedStats   |-> calculateStatistics(Numbers(data.failed)),
         sampleCount   |-> Len(samples) ]

\* One entry of aggregatedResults.
AggregatedResult(samples, c) ==
    LET data == Group(samples, c)
    IN [ concurrency   |-> c,
         durationStats |-> calculateStatistics(Numbers(data.durations)),
         passedStats   |-> calculateStatistics(Numbers(data.passed)),
         failedStats   |-> calculateStatistics(Numbers(data.failed)),
         sampleCount   |-> Len(data.durations) ]

\* for (const concurrency of sortedConcurrencies) aggregatedResults.push(...)
RECURSIVE PushLevels(_, _)
PushLevels(samples, concurrencies) ==
    IF concurrencies = << >> THEN << >>
    ELSE << AggregatedResult(samples, Head(concurrencies)) >>
           \o PushLevels(samples, Tail(concurrencies))

\* The aggregatedResults array: one entry per key, in sorted order.
AggregatedResults(samples) == PushLevels(samples, SortedConcurrencies(samples))

\* The StatisticalAnalysis aggregateResults returns for a non-empty list with
\* the given aggregatedResults, at time t.
StatisticalAnalysis(samples, levels, t) ==
    [ numberOfTestFiles |-> samples[1].numberOfTestFiles,
      applicationMode   |-> samples[1].applicationMode,
      sampleSize        |-> Len(samples),
      aggregatedResults |-> levels,
      timestamp         |-> t ]

\* ---------------------------------------------------------------- rendering
\* x.toFixed(2): the decimal with two digits nearest to x, the larger one of
\* two that are equally near, kept as its number of hundredths; "NaN" and
\* "Infinity" for the values that have no digits.
ToFixed2(x) ==
    IF x = NaN THEN [text |-> "NaN", hundredths |-> 0]
    ELSE IF ~IsFinite(x)
      THEN [text |-> IF x.num > 0 THEN "Infinity" ELSE "-Infinity", hundredths |-> 0]
    ELSE [text |-> "digits", hundredths |-> (200 * x.num + x.den) \div (2 * x.den)]

\* A baseline that is the highest level.
SequentialIsLast(a) == a.aggregatedResults[Len(a.aggregatedResults)]

\* const sequential = analysis.aggregatedResults[0]: the baseline of the
\* speedup analysis and of the summary.
Sequential(a) == a.aggregatedResults[1]

\* The row of one level in the speedup analysis of renderStatisticsTable.
SpeedupRow(sequential, result) ==
    [ concurrency   |-> result.concurrency,
      meanSpeedup   |-> ToFixed2(Div(sequential.durationStats.mean, result.durationStats.mean)),
      medianSpeedup |-> ToFixed2(Div(sequential.durationStats.median,
                                     result.durationStats.median)),
      bestSpeedup   |-> ToFixed2(Div(sequential.durationStats.min, result.durationStats.min)),
      worstSpeedup  |-> ToFixed2(Div(sequential.durationStats.max, result.durationStats.max)) ]

SpeedupRows(a) ==
    IF Len(a.aggregatedResults) = 0 THEN << >>
    ELSE [k \in 1..Len(a.aggregatedResults) |->
             SpeedupRow(Sequential(a), a.aggregatedResults[k])]

\* A callback that also replaces the best level on a tie.
TakesOverOnTie(current, best) == Leq(current.durationStats.mean, best.durationStats.mean)

\* current.durationStats.mean < best.durationStats.mean ? current : best
TakesOver(current, best) == Less(current.durationStats.mean, best.durationStats.mean)

\* aggregatedResults.reduce(...) without an initial value: the first level is
\* the first `best`, the callback runs from the second level on.
RECURSIVE ReduceFrom(_, _, _)
ReduceFrom(levels, k, best) ==
    IF k > Len(levels) THEN best
    ELSE ReduceFrom(levels, k + 1, IF TakesOver(levels[k], best) THEN levels[k] ELSE best)

BestByMean(a) == ReduceFrom(a.aggregatedResults, 2, a.aggregatedResults[1])

\* The "Fastest Configuration" lines of renderSummary, with the level the
\* speedup is taken against.
FastestConfiguration(a) ==
    [ sequential   |-> Sequential(a).concurrency,
      concurrency  |-> BestByMean(a).concurrency,
      meanDuration |-> ToFixed2(BestByMean(a).durationStats.mean),
      speedup      |-> ToFixed2(Div(Sequential(a).durationStats.mean,
                                    BestByMean(a).durationStats.mean)) ]

\* ------------------------------------------------------------ runBenchmarks
\* Head of the sample loop: the next sweep starts, or runBenchmarks returns.
SampleLoop ==
    /\ pc = "loop"
    /\ IF SampleLoopCond(sample, sampleSize)
         THEN /\ results' = << >>
              /\ StartSweep
              /\ pc' = "forAwait"
         ELSE /\ pc' = "aggregate"
              /\ UNCHANGED sweepVars
    /\ UNCHANGED << statVars, serverVars, configVars, sample, storeVars >>

\* A loop that also goes on to writeResults when the generator threw.
LoopLeft == consumer \in {"done", "threw"}

\* The for-await loop ended because the generator is exhausted.
LoopExhausted == consumer = "done"

\* The sweep is exhausted: writeResults is called with the collected results.
WriteResults ==
    /\ pc = "forAwait"
    /\ LoopExhausted
    /\ \E t \in DateNow :
          /\ now' = t
          /\ pendingWrite' = << ResultFileName(t), BenchmarkResult(results) >>
    /\ pc' = "writing"
    /\ UNCHANGED << statVars, serverVars, configVars, sample, sweepVars, dir, aggCalls, analysis, analysisFile,
                    table, summary >>

\* The awaited writeFile completes and the loop goes to its next iteration.
WriteResultsDone ==
    /\ pc = "writing"
    /\ dir' = WriteFile(dir, pendingWrite[1], pendingWrite[2])
    /\ pendingWrite' = << >>
    /\ sample' = sample + 1
    /\ pc' = "loop"
    /\ UNCHANGED << statVars, serverVars, configVars, sweepVars, now, aggCalls, analysis, analysisFile,
                    table, summary >>

\* An exception that is caught in the loop body, which goes on to the next
\* sample.
ThrowCaughtInLoop == "loop"

\* Where an exception out of the for-await loop takes the command: neither
\* runBenchmarks nor the command has a try, the process ends.
ThrowLeavesCommand == "failed"

\* The generator threw: the exception leaves the for-await loop, runBenchmarks
\* and the command.
SweepThrew ==
    /\ pc = "forAwait"
    /\ consumer = "threw"
    /\ pc' = ThrowLeavesCommand
    /\ UNCHANGED << statVars, serverVars, configVars, sample, sweepVars, storeVars >>

\* A throw that leaves the command where it would have gone on to `next`.
OnThrowContinue(next) == next

\* `throw new Error(...)`: the awaited call rejects, nothing catches it and
\* the command fails instead of going on to `next`.
OnThrow(next) == "failed"

\* aggregateResults(benchmarkResultsDir), awaited at `at` by a command that
\* goes on to `next`.
AggregateResultsAt(at, next) ==
    /\ pc = at
    /\ aggCalls' = aggCalls + 1
    /\ LET samples == ReadResultFiles(ResultFiles(Readdir(dir, analysisFile)))
           levels == AggregatedResults(samples)
       IN IF Len(samples) = 0 \/ \E k \in 1..Len(samples) : ~HasResults(samples[k])
            THEN /\ pc' = OnThrow(next)
                 /\ UNCHANGED << analysis, now >>
            ELSE /\ analysis' \in {StatisticalAnalysis(samples, levels, t) : t \in DateNow}
                 /\ now' = analysis'.timestamp
                 /\ pc' = next
    /\ UNCHANGED << statVars, serverVars, configVars, sample, sweepVars, dir, pendingWrite, analysisFile,
                    table, summary >>

AggregateResults == AggregateResultsAt("aggregate", "writeAnalysis")

\* writeAnalysisResults(benchmarkResultsDir, analysis), awaited at `at` by a
\* command that goes on to `next`.
WriteAnalysisResultsAt(at, next) ==
    /\ pc = at
    /\ analysisFile' = analysis
    /\ pc' = next
    /\ UNCHANGED << statVars, serverVars, configVars, sample, sweepVars, dir, pendingWrite, now, aggCalls,
                    analysis, table, summary >>

WriteAnalysisResults == WriteAnalysisResultsAt("writeAnalysis", "render")

\* renderStatisticalAnalysis(analysis): of what it prints, the rows of the
\* speedup analysis and the fastest configuration of the summary are kept.
RenderStatisticalAnalysis ==
    /\ pc = "render"
    /\ table' = SpeedupRows(analysis)
    /\ summary' = FastestConfiguration(analysis)
    /\ pc' = "done"
    /\ UNCHANGED << statVars, serverVars, configVars, sample, sweepVars, dir, pendingWrite, now, aggCalls,
                    analysis, analysisFile >>

\* ------------------------------------------------------ the default command
Init ==
    /\ maxConcurrency \in 1..MaxConcurrency
    /\ sampleSize \in 0..MaxSampleSize
    /\ pc = "loop"
    /\ InitCommon
    /\ NoStatistics
    /\ NoServer

Next ==
    \/ SampleLoop
    \/ StreamNext
    \/ AwaitResumes
    \/ ConsumerBody
    \/ ConsumerNext
    \/ WriteResults
    \/ WriteResultsDone
    \/ SweepThrew
    \/ AggregateResults
    \/ WriteAnalysisResults
    \/ RenderStatisticalAnalysis

Spec == Init /\ [][Next]_vars

\* ------------------------------------------------------ the analyze command
\* The directory `analyze` is given holds whatever records earlier runs left:
\* sweeps up to different maximum levels write to the same directory, and a
\* record need not list its levels upwards.
LevelOrders ==
    {[k \in 1..n |-> k] : n \in 1..MaxConcurrency}
      \cup {[k \in 1..MaxConcurrency |-> MaxConcurrency + 1 - k]}

SampleRecords ==
    {BenchmarkResult([k \in 1..Len(o) |-> TestRunBenchmarkResult(o[k], d)]) :
        o \in LevelOrders, d \in MainSummaries}

\* Two records with the durations 100 and 200 at level 1.
HundredRecord(duration) ==
    BenchmarkResult(<< [concurrency |-> 1, duration |-> duration, passed |-> 15,
                        failed |-> 0, totalTests |-> 15] >>)
HundredDirectory == << HundredRecord(100), HundredRecord(200) >>

\* Three records of sweeps that stop at level 1.
ThreeRecords ==
    [1..3 -> {r \in SampleRecords : Len(r.results) = 1 /\ r.results[1].concurrency = 1}]

\* A record that lists level 2 before level 1, with different values.
DownwardRecord ==
    BenchmarkResult(
      << TestRunBenchmarkResult(2, CHOOSE d \in MainSummaries : d.duration_ms # 0),
         TestRunBenchmarkResult(1, CHOOSE d \in MainSummaries : d.duration_ms = 0) >>)

\* Every directory of at most MaxFiles records, and the three kinds above.
Directories ==
    UNION {[1..n -> SampleRecords] : n \in 0..MaxFiles}
      \cup {HundredDirectory, << DownwardRecord >>} \cup ThreeRecords

AnalyzeInit ==
    /\ maxConcurrency = 1
    /\ sampleSize = 0
    /\ pc = "analyze"
    /\ NoSweep
    /\ dir \in Directories
    /\ EmptyStore
    /\ NoStatistics
    /\ NoServer

AnalyzeAggregate == AggregateResultsAt("analyze", "analyzeWrite")
AnalyzeWrite == WriteAnalysisResultsAt("analyzeWrite", "done")

AnalyzeNext ==
    \/ AnalyzeAggregate
    \/ AnalyzeWrite

AnalyzeSpec == AnalyzeInit /\ [][AnalyzeNext]_vars

\* --------------------------------------- the analyze command, run again
\* The analyze command is run on a directory and then again on the same
\* directory, which by then holds the analysis file of the run before: a new
\* process starts, with nothing but the files left of the earlier one.
AnalyzeAgain ==
    /\ pc = "done"
    /\ aggCalls < MaxRuns
    /\ pc' = "analyze"
    /\ analysis' = << >>
    /\ UNCHANGED << statVars, serverVars, configVars, sample, sweepVars, dir, pendingWrite, now, aggCalls,
                    analysisFile, table, summary >>

ReanalyzeNext ==
    \/ AnalyzeAggregate
    \/ AnalyzeWrite
    \/ AnalyzeAgain

ReanalyzeSpec == AnalyzeInit /\ [][ReanalyzeNext]_vars

\* --------------------------------------------- the statistics functions
\* The arrays the statistics functions are applied to: every array of at most
\* MaxLen measured values, two arrays of four different values, and longer
\* ones whose 95th and 99th percentiles fall on an element.
Percentiles == {25, 50, 75, 95, 99}
LongLengths == {21, 101}
FourValues == {<< 1, 2, 3, 4 >>, << 3, 1, 4, 2 >>}

StatInputs ==
    UNION {[1..n -> 0..MaxValue] : n \in 0..MaxLen}
      \cup FourValues
      \cup {[k \in 1..n |-> (7 * k) % (MaxValue + 2)] : n \in LongLengths}

StatsInit ==
    /\ maxConcurrency = 1
    /\ sampleSize = 0
    /\ pc = "stats"
    /\ InitCommon
    /\ \E v \in StatInputs :
          /\ statInput = Numbers(v)
          /\ stats = << >>
          /\ pct = << >>
    /\ NoServer

\* A call of calculateStatistics on the array.
CalculateStatistics ==
    /\ pc = "stats"
    /\ stats' = calculateStatistics(statInput)
    /\ UNCHANGED << serverVars, configVars, pc, sample, sweepVars, storeVars, statInput, pct >>

\* A call of calculatePercentile on the array, which is not empty.
CalculatePercentile(percentile) ==
    /\ pc = "stats"
    /\ Len(statInput) # 0
    /\ pct' = Interpolate(SortNumbers(statInput), percentile)
    /\ UNCHANGED << serverVars, configVars, pc, sample, sweepVars, storeVars, statInput, stats >>

StatsNext ==
    \/ CalculateStatistics
    \/ \E p \in Percentiles : CalculatePercentile(p)

StatsSpec == StatsInit /\ [][StatsNext]_vars

\* ------------------------------------------------- the test-subject server
\* MODES: the range of the file I/O in MB and of the child processes of every
\* workload mode.
MODES ==
    [ low             |-> [fileIoRange |-> << 0, 30 >>,    processRange |-> << 0, 1 >>],
      medium          |-> [fileIoRange |-> << 30, 70 >>,   processRange |-> << 1, 2 >>],
      high            |-> [fileIoRange |-> << 70, 100 >>,  processRange |-> << 2, 3 >>],
      \* the source spells the next four keys with a hyphen
      high_io         |-> [fileIoRange |-> << 80, 100 >>,  processRange |-> << 0, 3 >>],
      low_io          |-> [fileIoRange |-> << 0, 20 >>,    processRange |-> << 0, 3 >>],
      cpu_heavy       |-> [fileIoRange |-> << 0, 100 >>,   processRange |-> << 2, 3 >>],
      process_light   |-> [fileIoRange |-> << 0, 100 >>,   processRange |-> << 0, 1 >>],
      minimal         |-> [fileIoRange |-> << 0, 0 >>,     processRange |-> << 0, 0 >>],
      maximum         |-> [fileIoRange |-> << 100, 100 >>, processRange |-> << 3, 3 >>],
      default         |-> [fileIoRange |-> << 0, 100 >>,   processRange |-> << 0, 3 >>] ]

getMode(modeName) == MODES[modeName]

\* Math.floor(randomInRange(min, max)): min when the range is one value,
\* otherwise the floor of min + Math.random() * (max - min), any integer of
\* the range (max itself only when the product rounds up to it).
FloorOfRandomInRange(min, max) == IF min = max THEN {min} ELSE min..max

\* Math.floor(randomInRange(min, max + 0.999)): the range is never one value,
\* and the floor is an integer from min to max.
FloorOfRandomBelow(min, max) == min..max

\* The results simulateApplication can resolve with in a mode: a success with
\* the amounts it drew, or the failure its catch block builds when an
\* operation inside the try throws.
SimulationResults(modeName) ==
    {[success |-> TRUE, mode |-> modeName, fileIoAmount |-> mb * 1024 * 1024,
      processCount |-> n] :
        mb \in FloorOfRandomInRange(getMode(modeName).fileIoRange[1],
                                    getMode(modeName).fileIoRange[2]),
        n \in FloorOfRandomBelow(getMode(modeName).processRange[1],
                                 getMode(modeName).processRange[2])}
      \cup {[success |-> FALSE, mode |-> modeName, error |-> "error"]}

\* The response the request handler writes for a result.
ResponseOf(result) ==
    IF result.success
      THEN [status |-> 200,
            body |-> [appMetrics |-> [mode |-> result.mode,
                                      fileIoAmount |-> result.fileIoAmount,
                                      processCount |-> result.processCount]]]
      ELSE [status |-> 500, body |-> [error |-> result.error]]

\* assert.ok(json.metrics.<field> >= 0) for the three fields the test reads:
\* reading a field of a missing json.metrics throws, and a missing field
\* compares as undefined >= 0, which is false.
Fields == {"fileIoAmount", "processCount", "threadCount"}

MetricsNonNegative(json) ==
    /\ "metrics" \in DOMAIN json
    /\ \A f \in Fields : f \in DOMAIN json.metrics /\ json.metrics[f] >= 0

\* The outcome of the test for the response it received (<<>>: the fetch
\* was rejected).
TestOutcome(r) ==
    IF r = << >> THEN "failed"
    ELSE IF r.status # 200 THEN "failed"
    ELSE IF MetricsNonNegative(r.body) THEN "passed"
    ELSE "failed"

ServerInit ==
    /\ maxConcurrency = 1
    /\ sampleSize = 0
    /\ pc = "server"
    /\ InitCommon
    /\ NoStatistics
    /\ appMode \in DOMAIN MODES
    /\ server = "listening"
    /\ served = 0
    /\ response = << >>
    /\ testResult = "none"

\* A test 'request N' sends its request.
TestRequest ==
    /\ pc = "server"
    /\ testResult # "waiting"
    /\ served < MaxRequests
    /\ served' = served + 1
    /\ response' = << >>
    /\ testResult' = "waiting"
    /\ UNCHANGED << statVars, configVars, pc, sample, sweepVars, storeVars, appMode, server >>

\* The request handler: simulateApplication resolves and the response is
\* written.
HandleRequest ==
    /\ pc = "server"
    /\ server = "listening"
    /\ testResult = "waiting"
    /\ response = << >>
    /\ \E result \in SimulationResults(appMode) : response' = ResponseOf(result)
    /\ UNCHANGED << statVars, configVars, pc, sample, sweepVars, storeVars, appMode, server,
                    served, testResult >>

\* The request handler when simulateApplication rejects (mkdtemp before the
\* try, or cleanup in the finally): the rejection is unhandled in the async
\* listener, the process ends and no response is written.
HandleRequestRejects ==
    /\ pc = "server"
    /\ server = "listening"
    /\ testResult = "waiting"
    /\ response = << >>
    /\ server' = "crashed"
    /\ UNCHANGED << statVars, configVars, pc, sample, sweepVars, storeVars, appMode, served,
                    response, testResult >>

\* The test reads the response, or its fetch is rejected by a server that
\* is gone, and runs its assertions.
TestAsserts ==
    /\ pc = "server"
    /\ testResult = "waiting"
    /\ response # << >> \/ server = "crashed"
    /\ testResult' = TestOutcome(response)
    /\ UNCHANGED << statVars, configVars, pc, sample, sweepVars, storeVars, appMode, server,
                    served, response >>

ServerNext ==
    \/ TestRequest
    \/ HandleRequest
    \/ HandleRequestRejects
    \/ TestAsserts

ServerSpec == ServerInit /\ [][ServerNext]_vars

\* ======================================================== sweep properties
Pending == {l \in Levels : promise[l].state = "pending"}
Invoked == {l \in Levels : promise[l].state # "none"}

\* C1: a sweep invokes the Executor for the levels 1, 2, ... in ascending
\* order, each once, yields the Measurements in that order, and a sweep
\* consumed to exhaustion has invoked and yielded exactly 1..maxConcurrency.
C1_AscendingLevels ==
    /\ \A k \in 1..Len(calls) : calls[k] = k
    /\ \A k \in 1..Len(results) : results[k].concurrency = k
    /\ Len(results) <= Len(calls)
    /\ consumer = "done" =>
          /\ Len(calls) = maxConcurrency
          /\ Len(results) = maxConcurrency

C1_Witness ==
    /\ consumer = "done"
    /\ maxConcurrency >= 2
    /\ Len(results) = maxConcurrency

\* C2: at most one Executor invocation is in flight, and a level is invoked
\* only after every lower level has settled.
C2_OneInFlight ==
    /\ Cardinality(Pending) <= 1
    /\ \A l \in Invoked : \A k \in 1..(l - 1) : Settled(promise[k])

C2_Witness ==
    /\ promise[2].state = "pending"
    /\ promise[1].state = "resolved"

\* C3: when the Executor fails at level k, the consumer has received exactly
\* the Measurements of the levels 1..k-1, in order, the Executor was invoked
\* once for each of 1..k and for no higher level, and it stays so.
C3_AbortOnFailure ==
    \A k \in Levels :
        promise[k].state = "rejected" =>
            /\ calls = [j \in 1..k |-> j]
            /\ Len(results) = k - 1
            /\ \A j \in 1..(k - 1) : results[j] = promise[j].value /\ results[j].concurrency = j
            /\ \A l \in Levels : l > k => promise[l].state = "none"
            /\ consumer \in {"waiting", "threw"}
            /\ consumer = "threw" => gen = "completed" /\ i = k

C3_Witness ==
    /\ consumer = "threw"
    /\ i = 2
    /\ Len(results) = 1

\* C4: the Measurement of level j has been handed to the consumer before the
\* Executor is invoked for level j+1, so at a failure every Measurement
\* produced so far is already with the consumer.
C4_DeliveredBeforeNextLevel ==
    /\ Len(results) >= Len(calls) - 1
    /\ \A j \in 1..Len(results) : results[j] = promise[j].value
    /\ consumer = "threw" => Len(results) = Len(calls) - 1

C4_Witness ==
    /\ Len(calls) = 2
    /\ Len(results) = 1
    /\ promise[2].state = "pending"

\* C5: while the consumer holds the Measurement of level j without asking for
\* more, and for ever once it has stopped there, the Executor has been
\* invoked for the levels 1..j only and nothing is in flight.
C5_NoWorkAfterCancel ==
    /\ consumer \in {"pushed", "stopped"} =>
          /\ Len(calls) = Len(results)
          /\ Pending = {}
          /\ \A l \in Levels : l > Len(results) => promise[l].state = "none"
    /\ consumer = "stopped" => gen = "completed"

C5_Witness ==
    /\ consumer = "stopped"
    /\ Len(results) = 1
    /\ maxConcurrency >= 2

\* C6: a main summary with failed > 0 resolves the invocation with a
\* Measurement that carries the failed count, which reaches the consumer;
\* only the stream's 'error' event (which ends the stream) rejects it, and the
\* sweep is aborted by a rejection only.
C6_FailedTestsAreMeasurements ==
    /\ \A l \in Levels :
          /\ promise[l].state = "rejected" => stream[l] = "ended"
          /\ promise[l].state = "resolved" =>
                \E d \in MainSummaries :
                    /\ promise[l].value = TestRunBenchmarkResult(l, d)
                    /\ promise[l].value.failed = d.counts.failed
    /\ \A k \in 1..Len(results) : results[k] = promise[k].value
    /\ consumer = "threw" =>
          /\ promise[i].state = "rejected"
          /\ \A k \in 1..(i - 1) : promise[k].state = "resolved"
    /\ (gen = "completed" /\ consumer \notin {"threw", "stopped"}) =>
          Len(results) = maxConcurrency

C6_Witness ==
    /\ consumer = "done"
    /\ Len(results) >= 2
    /\ results[1].failed > 0
    /\ stream[1] = "running"

\* C7: an Executor invocation whose test subject does not become ready does
\* not stay pending for ever: the wait for readiness ends, by readiness or by
\* a failure of the invocation.
C7_StartupBounded ==
    \A l \in Levels :
        (stream[l] = "starting" /\ promise[l].state = "pending")
            ~> (stream[l] # "starting" \/ promise[l].state = "rejected")

\* ============================================= default command properties
\* C8: sweeps run one after another, each started only after the Sample of
\* the one before it has been written, and aggregateResults is invoked once,
\* after all sampleSize sweeps have been consumed and written.
C8_SweepsThenOneAggregation ==
    /\ sweeps <= sample + 1
    /\ pc = "loop" => sweeps = sample /\ pendingWrite = << >>
    /\ pc = "forAwait" => sweeps = sample + 1 /\ pendingWrite = << >>
    /\ pc = "writing" => sweeps = sample + 1 /\ consumer = "done" /\ gen = "completed"
    /\ Pending # {} => pc = "forAwait"
    /\ aggCalls <= 1
    /\ pc \in {"loop", "forAwait", "writing", "aggregate"} => aggCalls = 0
    /\ pc \in {"writeAnalysis", "render", "done"} => aggCalls = 1
    /\ pc = "aggregate" => sample = sampleSize /\ sweeps = sampleSize
    /\ aggCalls = 1 =>
          /\ sample = sampleSize
          /\ sweeps = sampleSize
          /\ pendingWrite = << >>
          /\ Pending = {}
          /\ gen \in {"none", "completed"}

C8_Witness ==
    /\ pc = "done"
    /\ sampleSize = 2
    /\ aggCalls = 1
    /\ sweeps = 2

\* C9: every Sample record written holds exactly maxConcurrency measurements,
\* the k-th of them of concurrency k.
WellFormedSample(rec) ==
    /\ Len(rec.results) = maxConcurrency
    /\ \A k \in 1..maxConcurrency : rec.results[k].concurrency = k

C9_SamplesComplete ==
    /\ \A f \in DOMAIN dir : WellFormedSample(dir[f])
    /\ pendingWrite # << >> => WellFormedSample(pendingWrite[2])

C9_Witness ==
    /\ maxConcurrency = 2
    /\ \E f \in DOMAIN dir : Len(dir[f].results) = 2

\* C10: after s completed sweeps the results directory holds s Sample records,
\* whatever the timing of the sweeps.
C10_OneRecordPerSweep == Cardinality(DOMAIN dir) = sample

\* ================================================= aggregation properties
\* The concurrency values a record has Measurements for.
Coverage(rec) == {rec.results[k].concurrency : k \in 1..Len(rec.results)}

\* The records of the directory do not all cover the same levels.
Mismatched(d) == \E f, g \in DOMAIN d : Coverage(d[f]) # Coverage(d[g])

\* The Measurements of the directory, each named by its file and its position,
\* and those of one concurrency value.
Measurements(d) == {<< f, k >> : f \in DOMAIN d, k \in 1..MaxConcurrency + 1} \cap
                     UNION {{f} \X (1..Len(d[f].results)) : f \in DOMAIN d}
MeasurementsAt(d, c) == {m \in Measurements(d) : d[m[1]].results[m[2]].concurrency = c}

\* aggregateResults has returned or thrown.
Aggregated == aggCalls = 1

\* C11: aggregating a directory without result files fails; the command ends
\* there, no StatisticalAnalysis exists and none is written.
C11_EmptyFails ==
    (DOMAIN dir = {})
      => /\ analysis = << >>
         /\ analysisFile = << >>
         /\ Aggregated => pc = "failed"

C11_Witness == Aggregated /\ DOMAIN dir = {} /\ pc = "failed"

\* C12 as stated: records that do not cover the same levels make the
\* aggregation fail without a StatisticalAnalysis.
C12_MismatchFails ==
    (Aggregated /\ Mismatched(dir)) => (pc = "failed" /\ analysis = << >>)

\* C12: records that do not cover the same levels are aggregated without a
\* failure; no Measurement is dropped, the sampleCount of a level is the number
\* of Measurements with its concurrency, and some level lacks a Measurement of
\* some record.
C12_MismatchAggregated ==
    (Aggregated /\ Mismatched(dir))
      => /\ pc # "failed"
         /\ analysis # << >>
         /\ LET levels == analysis.aggregatedResults
            IN /\ \A m \in Measurements(dir) :
                    \E k \in 1..Len(levels) :
                       levels[k].concurrency = dir[m[1]].results[m[2]].concurrency
               /\ \A k \in 1..Len(levels) :
                    levels[k].sampleCount =
                      Cardinality(MeasurementsAt(dir, levels[k].concurrency))
               /\ \E k \in 1..Len(levels) :
                    \E f \in DOMAIN dir : levels[k].concurrency \notin Coverage(dir[f])

C12_Witness ==
    /\ pc = "done"
    /\ Mismatched(dir)
    /\ analysisFile # << >>
    /\ \E k \in 1..Len(analysisFile.aggregatedResults) :
          analysisFile.aggregatedResults[k].sampleCount < analysisFile.sampleSize

\* C13: the levels of a StatisticalAnalysis are strictly ascending by
\* concurrency and are the concurrency values that occur in the Measurements
\* read, each once.
C13_LevelsAscending ==
    (analysis # << >>)
      => LET levels == analysis.aggregatedResults
         IN /\ \A k \in 1..(Len(levels) - 1) :
                 levels[k].concurrency < levels[k + 1].concurrency
            /\ {levels[k].concurrency : k \in 1..Len(levels)} =
                 UNION {Coverage(dir[f]) : f \in DOMAIN dir}

\* An analysis of several levels from a directory whose first record lists its
\* levels downwards.
C13_Witness ==
    /\ pc = "done"
    /\ Len(analysis.aggregatedResults) > 1
    /\ dir[1].results[1].concurrency > 1

\* The values of one field of the Measurements with concurrency c, by file and
\* then by position.
ValuesAt(d, c, field) ==
    LET P == MeasurementsAt(d, c)
        Rank(m) == Cardinality({n \in P : n[1] < m[1] \/ (n[1] = m[1] /\ n[2] <= m[2])})
    IN [k \in 1..Cardinality(P) |->
           LET m == CHOOSE n \in P : Rank(n) = k
           IN d[m[1]].results[m[2]][field]]

\* C14: the Statistics of the level of concurrency c are those of the values
\* of all Measurements with concurrency c in all records, none dropped and
\* none of another level, and sampleCount is their number; the durations 100
\* and 200 at level 1 give the mean 150 and the sampleCount 2.
C14_GroupedStatistics ==
    (analysis # << >>)
      => LET levels == analysis.aggregatedResults
         IN /\ \A k \in 1..Len(levels) :
                 LET c == levels[k].concurrency
                 IN /\ levels[k].sampleCount = Cardinality(MeasurementsAt(dir, c))
                    /\ levels[k].durationStats =
                         calculateStatistics(Numbers(ValuesAt(dir, c, "duration")))
                    /\ levels[k].passedStats =
                         calculateStatistics(Numbers(ValuesAt(dir, c, "passed")))
                    /\ levels[k].failedStats =
                         calculateStatistics(Numbers(ValuesAt(dir, c, "failed")))
            /\ (dir = HundredDirectory)
                 => /\ levels[1].durationStats.mean = Num(150)
                    /\ levels[1].sampleCount = 2

C14_Witness ==
    /\ pc = "done"
    /\ dir = HundredDirectory
    /\ analysisFile.aggregatedResults[1].concurrency = 1
    /\ analysisFile.aggregatedResults[1].durationStats.mean = Num(150)
    /\ analysisFile.aggregatedResults[1].sampleCount = 2

\* The orders in which n records can be read.
ReadOrders(n) == {p \in [1..n -> 1..n] : \A j, k \in 1..n : p[j] = p[k] => j = k}
Permuted(samples, p) == [k \in 1..Len(samples) |-> samples[p[k]]]

\* The StatisticalAnalysis of the records read in the order p, at the time of
\* the analysis made.
AnalysisOf(p) ==
    LET samples == Permuted(ReadResultFiles(dir), p)
    IN StatisticalAnalysis(samples, AggregatedResults(samples), analysis.timestamp)

\* A level with the standard deviations taken before the rounding of their
\* sums.
ExactStatistics(s) == [s EXCEPT !.stdDev = @.sqrtOf]
ExactLevel(l) ==
    [l EXCEPT !.durationStats = ExactStatistics(@),
              !.passedStats = ExactStatistics(@),
              !.failedStats = ExactStatistics(@)]
ExactLevels(levels) == [k \in 1..Len(levels) |-> ExactLevel(levels[k])]

\* C15 as stated: in whatever order the records are read, the sampleSize and
\* the levels with their concurrency, Statistics and sampleCount are the same.
C15_OrderIndependent ==
    (pc = "analyzeWrite")
      => \A p \in ReadOrders(Cardinality(DOMAIN dir)) :
            /\ AnalysisOf(p).sampleSize = analysis.sampleSize
            /\ AnalysisOf(p).aggregatedResults = analysis.aggregatedResults

\* C15: in whatever order the records are read, the sampleSize and the levels
\* with their concurrency, sampleCount and Statistics are the same, but for
\* the rounding of the sum under the root of a standard deviation.
C15_OrderIndependentExact ==
    (pc = "analyzeWrite")
      => \A p \in ReadOrders(Cardinality(DOMAIN dir)) :
            /\ AnalysisOf(p).sampleSize = analysis.sampleSize
            /\ ExactLevels(AnalysisOf(p).aggregatedResults) =
                 ExactLevels(analysis.aggregatedResults)

\* Three records read in two orders that give standard deviations with
\* different roundings.
C15_Witness ==
    /\ pc = "analyzeWrite"
    /\ Cardinality(DOMAIN dir) = 3
    /\ \E p \in ReadOrders(3) :
          AnalysisOf(p).aggregatedResults # analysis.aggregatedResults

\* C25: every level of an analysis comes from a group whose durations, passed
\* and failed arrays have one length n >= 1, which is its sampleCount, so its
\* Statistics are those of non-empty arrays, whatever the lengths of the
\* records read.
C25_NoEmptyGroup ==
    (analysis # << >>)
      => \A k \in 1..Len(analysis.aggregatedResults) :
            LET level == analysis.aggregatedResults[k]
                data == Group(ReadResultFiles(dir), level.concurrency)
            IN /\ Len(data.durations) >= 1
               /\ Len(data.passed) = Len(data.durations)
               /\ Len(data.failed) = Len(data.durations)
               /\ level.sampleCount = Len(data.durations)
               /\ IsFinite(level.durationStats.min) /\ IsFinite(level.durationStats.max)
               /\ IsFinite(level.passedStats.min) /\ IsFinite(level.passedStats.max)
               /\ IsFinite(level.failedStats.min) /\ IsFinite(level.failedStats.max)

\* Records of different lengths: level 2 has fewer values than level 1.
C25_Witness ==
    /\ pc = "done"
    /\ Len(analysis.aggregatedResults) = 2
    /\ analysis.aggregatedResults[1].sampleCount = 2
    /\ analysis.aggregatedResults[2].sampleCount = 1

\* ================================================== statistics properties
Computed == stats # << >> /\ Len(statInput) # 0
IsConstant(values) == \A k \in 1..Len(values) : values[k] = values[1]

\* C16: for every non-empty array, the statistics calculateStatistics returns
\* are ordered min <= p25 <= median <= p75 <= max.
C16_QuartilesOrdered ==
    Computed =>
        /\ Leq(stats.min, stats.p25)
        /\ Leq(stats.p25, stats.median)
        /\ Leq(stats.median, stats.p75)
        /\ Leq(stats.p75, stats.max)

C16_Witness ==
    /\ Computed
    /\ Len(statInput) = 2
    /\ stats.min # stats.p25
    /\ stats.p25 # stats.median
    /\ stats.median # stats.p75
    /\ stats.p75 # stats.max

\* C17: for a non-empty array of n values and p in {25, 50, 75, 95, 99},
\* calculatePercentile reads two elements of the sorted copy only, at indices
\* 0 <= lower <= upper <= n - 1, and when p * (n - 1) / 100 is an integer the
\* value returned is exactly the sorted element at that index.
C17_PercentileInBounds ==
    pct # << >> =>
        LET n == Len(statInput)
            scaled == pct.percentile * (n - 1)
        IN /\ 0 <= pct.lower
           /\ pct.lower <= pct.upper
           /\ pct.upper <= n - 1
           /\ scaled % 100 = 0 =>
                  pct.result = SortNumbers(statInput)[(scaled \div 100) + 1]

C17_Witness ==
    /\ pct # << >>
    /\ pct.percentile = 95
    /\ Len(statInput) = 21
    /\ pct.lower = 19
    /\ pct.upper = 19

\* C18: calculatePercentile returns the linear interpolation
\* s[lo] * (1 - w) + s[hi] * w, where s is the sorted copy,
\* idx = (p / 100) * (n - 1), lo = floor(idx), hi = ceil(idx) and w = idx - lo;
\* the 25th percentile of [1, 2, 3, 4] is 1.75.
C18_LinearInterpolation ==
    pct # << >> =>
        LET s == SortNumbers(statInput)
            scaled == pct.percentile * (Len(s) - 1)
            lo == scaled \div 100
            hundredths == scaled % 100
            hi == IF hundredths = 0 THEN lo ELSE lo + 1
        IN /\ pct.lower = lo
           /\ pct.upper = hi
           /\ pct.weight = Frac(hundredths, 100)
           /\ Mul(Num(100), pct.result)
                 = Add(Mul(s[lo + 1], Num(100 - hundredths)), Mul(s[hi + 1], Num(hundredths)))
           /\ (s = Numbers(<< 1, 2, 3, 4 >>) /\ pct.percentile = 25) => pct.result = Frac(7, 4)

C18_Witness ==
    /\ pct # << >>
    /\ statInput = Numbers(<< 3, 1, 4, 2 >>)
    /\ pct.percentile = 25
    /\ pct.result = Frac(7, 4)

\* C19: for an array whose elements all equal c, a single element included,
\* mean, median, min, max, p25, p75, p95 and p99 are c and stdDev is 0.
C19_ConstantArray ==
    (Computed /\ IsConstant(statInput)) =>
        LET c == statInput[1]
        IN /\ stats.mean = c
           /\ stats.median = c
           /\ stats.min = c
           /\ stats.max = c
           /\ stats.p25 = c
           /\ stats.p75 = c
           /\ stats.p95 = c
           /\ stats.p99 = c
           /\ stats.stdDev = MathSqrt(Num(0), << >>)

C19_Witness ==
    /\ Computed
    /\ statInput = Numbers(<< 2 >>)
    /\ stats.mean = Num(2)
    /\ stats.stdDev.sqrtOf = Num(0)

\* ==================================================== rendering properties
\* The text of x.toFixed(2) for x = 1.
One00 == [text |-> "digits", hundredths |-> 100]

\* C20: in the speedup analysis that is rendered, the row of concurrency 1
\* shows the mean, median, best and worst speedup 1.00, whatever the
\* durations, a duration of 0 included.
C20_SequentialSpeedupIsOne ==
    \A k \in 1..Len(table) :
       (table[k].concurrency = 1)
         => /\ table[k].meanSpeedup = One00
            /\ table[k].medianSpeedup = One00
            /\ table[k].bestSpeedup = One00
            /\ table[k].worstSpeedup = One00

\* C21: the baseline of every speedup that is rendered, in the speedup
\* analysis and in the summary, is the aggregated level of concurrency 1.
C21_BaselineIsLevelOne ==
    (table # << >>)
      => \E b \in 1..Len(analysis.aggregatedResults) :
            LET levels == analysis.aggregatedResults
            IN /\ levels[b].concurrency = 1
               /\ table = [k \in 1..Len(levels) |-> SpeedupRow(levels[b], levels[k])]
               /\ summary.sequential = 1
               /\ \E f \in 1..Len(levels) :
                     /\ levels[f].concurrency = summary.concurrency
                     /\ summary.speedup =
                          ToFixed2(Div(levels[b].durationStats.mean,
                                       levels[f].durationStats.mean))

\* A rendered analysis of two levels whose means differ.
C21_Witness ==
    /\ pc = "done"
    /\ Len(table) = 2
    /\ summary.sequential = 1
    /\ analysis.aggregatedResults[1].durationStats.mean #
         analysis.aggregatedResults[2].durationStats.mean

\* C22: the fastest level of the summary is a level whose mean duration no
\* level is below, and of the levels with that mean the one of the lowest
\* concurrency.
C22_FastestLevel ==
    (summary # << >>)
      => \E f \in 1..Len(analysis.aggregatedResults) :
            LET levels == analysis.aggregatedResults
            IN /\ levels[f].concurrency = summary.concurrency
               /\ \A k \in 1..Len(levels) :
                    /\ Leq(levels[f].durationStats.mean, levels[k].durationStats.mean)
                    /\ (levels[k].durationStats.mean = levels[f].durationStats.mean)
                         => levels[f].concurrency <= levels[k].concurrency

\* Two levels with the same mean, the lower of which is reported.
C22_Witness ==
    /\ pc = "done"
    /\ Len(analysis.aggregatedResults) = 2
    /\ analysis.aggregatedResults[1].durationStats.mean =
         analysis.aggregatedResults[2].durationStats.mean
    /\ summary.concurrency = 1

\* ================================================ runBenchmarks properties
\* C24: when the Executor fails at level k of a sweep, the k-1 Measurements
\* already produced are written nowhere; writeResults is called only with the
\* results of a sweep consumed to exhaustion, so the directory holds complete
\* sweeps only.
C24_NoPartialSample ==
    /\ (consumer = "threw")
         => /\ pendingWrite = << >>
            /\ Len(results) < maxConcurrency
            /\ Cardinality(DOMAIN dir) <= sample
            /\ \A f \in DOMAIN dir : Len(dir[f].results) > Len(results)
    /\ (pendingWrite # << >>)
         => /\ consumer = "done"
            /\ gen = "completed"
            /\ pendingWrite[2].results = results
            /\ Len(results) = maxConcurrency
    /\ \A f \in DOMAIN dir : Len(dir[f].results) = maxConcurrency

\* The second sweep failed at level 2 with one Measurement collected, after
\* the first sweep was written.
C24_Witness ==
    /\ pc = "failed"
    /\ consumer = "threw"
    /\ sample = 1
    /\ Len(results) = 1
    /\ Cardinality(DOMAIN dir) = 1

\* C28: once the Executor has failed in a sweep of runBenchmarks, no further
\* sweep is started, aggregateResults is not invoked, no analysis is made,
\* written or rendered, and the results directory stays as it is.
C28_FailureEndsCommand ==
    /\ [](consumer = "threw"
            => /\ pc \in {"forAwait", "failed"}
               /\ sweeps = sample + 1
               /\ aggCalls = 0
               /\ analysis = << >>
               /\ analysisFile = << >>
               /\ table = << >>)
    /\ [][consumer = "threw"
            => /\ consumer' = "threw"
               /\ UNCHANGED << sweeps, sample, calls, dir, pendingWrite, aggCalls,
                               analysis, analysisFile >>]_vars

\* The first of two sweeps failed: the command has ended with one sweep
\* started.
C28_Witness ==
    /\ pc = "failed"
    /\ consumer = "threw"
    /\ sampleSize = 2
    /\ sample = 0
    /\ sweeps = 1

\* C29: the analysis of a default command that ran all its sweeps without a
\* failure has the sampleSize of the command and the levels 1..maxConcurrency,
\* each with that sampleCount.
C29_AnalysisOfAllSamples ==
    (analysis # << >>)
      => /\ analysis.sampleSize = sampleSize
         /\ Len(analysis.aggregatedResults) = maxConcurrency
         /\ \A k \in 1..Len(analysis.aggregatedResults) :
               /\ analysis.aggregatedResults[k].concurrency = k
               /\ analysis.aggregatedResults[k].sampleCount = sampleSize

\* ===================================================== Executor properties
\* C26: an invocation settles at most once: a settled promise never changes,
\* whatever summary or error events follow, and a promise is resolved only by
\* a main summary of its running stream, with that summary's Measurement and
\* never with the counts of a per-file summary.
C26_SettlesOnce ==
    [][\A l \in Levels :
          /\ Settled(promise[l]) => promise'[l] = promise[l]
          /\ (promise[l].state = "pending" /\ promise'[l].state = "resolved")
               => /\ stream[l] = "running"
                  /\ \E d \in MainSummaries :
                        promise'[l].value = TestRunBenchmarkResult(l, d)
                  /\ \A d \in FileSummaries :
                        promise'[l].value # TestRunBenchmarkResult(l, d)
          /\ (promise[l].state = "pending" /\ promise'[l].state = "rejected")
               => stream'[l] = "ended"]_vars

\* Level 1 was resolved and its stream ended afterwards; level 2 was
\* rejected.
C26_Witness ==
    /\ promise[1].state = "resolved"
    /\ stream[1] = "ended"
    /\ promise[2].state = "rejected"

\* Every invocation settles, and the consumer never leaves the loop early.
EveryInvocationSettles ==
    \A l \in Levels : (promise[l].state = "pending") ~> Settled(promise[l])
KeepsConsuming == [](consumer # "stopped")

\* The sweep has ended: by exhaustion with maxConcurrency Measurements, or by
\* the throw of the first failed invocation.
SweepTerminated ==
    /\ gen = "completed"
    /\ \/ consumer = "done" /\ Len(results) = maxConcurrency
       \/ consumer = "threw" /\ promise[i].state = "rejected"
                             /\ \A k \in 1..(i - 1) : promise[k].state = "resolved"

\* C27: if every Executor invocation settles and the consumer keeps
\* consuming, the sweep terminates, by exhaustion after maxConcurrency
\* Measurements or by the first failure; it never makes more than
\* maxConcurrency invocations.
C27_SweepTerminates ==
    /\ [](Len(calls) <= maxConcurrency)
    /\ (EveryInvocationSettles /\ KeepsConsuming) => <>SweepTerminated

C27_Witness ==
    /\ maxConcurrency = 2
    /\ SweepTerminated
    /\ consumer = "done"
    /\ Len(calls) = 2

\* ================================================ re-analysis properties
\* C30: an analysis made of a directory that already holds the analysis file
\* of an earlier run does not fail and has the sampleSize and the levels of
\* that file: the file is not read as a Sample.
C30_AnalyzeIdempotent ==
    (aggCalls >= 2 /\ analysisFile # << >>)
      => /\ pc # "failed"
         /\ (analysis # << >>)
              => /\ analysis.sampleSize = analysisFile.sampleSize
                 /\ analysis.sampleSize = Cardinality(DOMAIN dir)
                 /\ analysis.aggregatedResults = analysisFile.aggregatedResults

\* The second run has aggregated two records, and the file of the first run,
\* made at another time, is still there.
C30_Witness ==
    /\ pc = "analyzeWrite"
    /\ aggCalls = 2
    /\ Cardinality(DOMAIN dir) = 2
    /\ analysisFile # << >>
    /\ analysis # << >>
    /\ analysis.timestamp # analysisFile.timestamp

\* =================================================== test-subject properties
\* C23: every successful (HTTP 200) response of the test-subject server has a
\* JSON body whose metrics.fileIoAmount, metrics.processCount and
\* metrics.threadCount are all at least 0, for every request and every mode,
\* as the generated integration tests assert.
C23_MetricsInEveryOk ==
    (response # << >> /\ response.status = 200) => MetricsNonNegative(response.body)
====
